---- MODULE Spec2Model ----
(***************************************************************************)
(* Model of serveur.js (second revision, lines 242-748): the WebSocket     *)
(* connection registry (espClients), the observer list (androidClients),   *)
(* the message router and the HTTP read/install/update/delete paths over   *)
(* the lampadaires table.                                                  *)
(*                                                                         *)
(* Node runs every handler on one event loop.  A handler runs without      *)
(* interruption up to its next `await pool.query(...)`; there it is        *)
(* suspended (a record in `tasks`) and any other handler may run.  The     *)
(* step that resumes a handler performs the awaited query on the table and *)
(* then runs the handler up to its next await or to its end.  A query may  *)
(* fail (the promise rejects): parameter ok of the resuming actions.       *)
(*                                                                         *)
(* ws.send on a socket that is not OPEN does not throw (ws >= 7); `out`    *)
(* records the calls of ws.send made by the last step, in call order, and  *)
(* `log` what the WebSocket handlers of the last step wrote to the         *)
(* console.                                                                *)
(***************************************************************************)
EXTENDS Integers, Sequences, FiniteSets, TLC

\* ---- bounds of the model ------------------------------------------------
NConn == 3        \* WebSocket connections accepted by wss.on('connection')
MaxTasks == 3     \* handlers suspended on a store operation at one time
MaxOps == 3       \* inbound events (messages, closes, HTTP requests) handled
MaxAndroid == 2   \* length of androidClients

Conns == 1..NConn
Macs == {"AA:01", "AA:02"}
Ids == {"LAMP0001", "LAMP0002"}   \* results of generateLampId
\* id VARCHAR(50) PRIMARY KEY: the identity of a row that this revision's
\* installer did not write (the table is created IF NOT EXISTS) is any string
LegacyIds == {"7"}
AllIds == Ids \cup LegacyIds
Tokens == {"tok1", "tok2"}
EspStates == {"ON"}
PutStatuses == {"ON", "OFF"}

\* ---- JavaScript values of data.idLampadaire ------------------------------
JsUndefined == [ty |-> "undefined", v |-> "undefined"]
JsString(s) == [ty |-> "string", v |-> s]
JsNumber(s) == [ty |-> "number", v |-> s]   \* v: the decimal rendering
\* String(x)
StringOfStringOnly(x) == IF x.ty = "string" THEN x.v ELSE x.ty
String(x) == x.v
\* ToBoolean(x): undefined, "" and 0 are falsy
Truthy(x) ==
  \/ x.ty = "string" /\ x.v # ""
  \/ x.ty = "number" /\ x.v # "0"
\* x !== "0"
NotSentinel(x) == ~(x.ty = "string" /\ x.v = "0")
\* the text JSON.stringify writes for the member (an undefined member is left out)
Json(x) ==
  CASE x.ty = "string" -> "\"" \o x.v \o "\""
    [] x.ty = "number" -> x.v
    [] OTHER -> ""

Targets ==
  {JsUndefined, JsString(""), JsString("0"), JsNumber("0"), JsNumber("7")}
    \cup {JsString(i) : i \in AllIds}

\* ---- the lampadaires table: one row per mac (mac UNIQUE, id PRIMARY KEY) --
NoRow == [id |-> "", token |-> "", status |-> ""]
Rows == [id : AllIds, token : Tokens, status : {"OFF", "CONNECTED", "HORS_LIGNE", "ON"}]

VARIABLES
  lampadaires,     \* the table: mac -> row or NoRow
  espClients,      \* the Map mac -> {ws, lampId, token}, in insertion order
  androidClients,  \* the array of observer sockets
  readyState,      \* ws.readyState of every connection; "NONE": not accepted yet
  tasks,           \* the handlers suspended on pool.query
  out,             \* the ws.send calls of the last step: <<[to, msg]>>
  res,             \* the HTTP response sent by the last step, or NoRes
  installed,       \* mac -> the id/token of the last 200 install reply for a
                   \* row that has not been deleted since, or NoRow
  nops,            \* inbound events handled so far
  log,             \* the console line of the WebSocket handlers in the last
                   \* step, or "" (accents dropped)
  pingInterval     \* connection -> its setInterval timer is armed

vars == <<lampadaires, espClients, androidClients, readyState, tasks, out,
          res, installed, nops, log, pingInterval>>

\* ---- helpers over the table ----------------------------------------------
HasRow(t, mac) == t[mac] # NoRow
RowMacs(t) == {m \in Macs : HasRow(t, m)}
MacsOfId(t, id) == {m \in Macs : HasRow(t, m) /\ t[m].id = id}
\* UPDATE lampadaires SET status = $1 WHERE mac = $2
UpdateByMac(t, mac, status) ==
  IF HasRow(t, mac) THEN [t EXCEPT ![mac].status = status] ELSE t
\* UPDATE lampadaires SET status = $1 WHERE id = $2
UpdateByIdNothing(t, id, status) == t
UpdateById(t, id, status) ==
  [m \in Macs |-> IF HasRow(t, m) /\ t[m].id = id
                  THEN [t[m] EXCEPT !.status = status] ELSE t[m]]

\* ---- helpers over the Map espClients -------------------------------------
Keys(map) == {map[i].mac : i \in 1..Len(map)}
IndexOf(map, mac) == CHOOSE i \in 1..Len(map) : map[i].mac = mac
\* Map.prototype.get
MapGet(map, mac) == map[IndexOf(map, mac)]
\* Map.prototype.set: an existing key keeps its position
MapSetAppend(map, mac, ws, lampId, token) ==
  Append(map, [mac |-> mac, ws |-> ws, lampId |-> lampId, token |-> token])
MapSet(map, mac, ws, lampId, token) ==
  LET e == [mac |-> mac, ws |-> ws, lampId |-> lampId, token |-> token]
  IN IF mac \in Keys(map)
     THEN [map EXCEPT ![IndexOf(map, mac)] = e]
     ELSE Append(map, e)
\* Map.prototype.delete
MapDeleteNothing(map, mac) == map
MapDelete(map, mac) == SelectSeq(map, LAMBDA e : e.mac # mac)
\* the indexes of the entries held by connection c
Owned(map, c) == {i \in 1..Len(map) : map[i].ws = c}
Min(S) == CHOOSE x \in S : \A y \in S : x <= y

\* ---- messages sent by the server ------------------------------------------
Msg(type, lampId, mac, status, token) ==
  [type |-> type, lampId |-> lampId, mac |-> mac, status |-> status, token |-> token]
Send(c, m) == [to |-> c, msg |-> m]

\* broadcastToAndroid(data)
broadcastToAndroidAll(data) ==
  [i \in 1..Len(androidClients) |-> Send(androidClients[i], data)]
broadcastToAndroid(data) ==
  LET all == [i \in 1..Len(androidClients) |-> Send(androidClients[i], data)]
  IN SelectSeq(all, LAMBDA s : readyState[s.to] = "OPEN")

\* ---- suspended handlers ----------------------------------------------------
\* tasks: the suspended handlers, in the order they were suspended
Slots == DOMAIN tasks
CanSuspend == Len(tasks) < MaxTasks
Suspend(t) == Append(tasks, t)
Finish(s) == [i \in 1..(Len(tasks) - 1) |-> IF i < s THEN tasks[i] ELSE tasks[i + 1]]
NoRes == [op |-> "none"]

\* ---- initial state ---------------------------------------------------------
\* The table outlives the process: it starts with the rows of earlier runs.
InitTables ==
  { [m \in Macs |-> IF m = "AA:01"
                    THEN [id |-> "LAMP0001", token |-> "tok1", status |-> "OFF"]
                    ELSE NoRow],
    [m \in Macs |-> IF m = "AA:01"
                    THEN [id |-> "LAMP0001", token |-> "tok1", status |-> "OFF"]
                    ELSE [id |-> "7", token |-> "tok2", status |-> "OFF"]] }

Init ==
  /\ lampadaires \in InitTables
  /\ espClients = <<>>
  /\ androidClients = <<>>
  /\ readyState = [c \in Conns |-> "NONE"]
  /\ tasks = <<>>
  /\ out = <<>>
  /\ res = NoRes
  /\ installed = [m \in Macs |-> NoRow]
  /\ nops = 0
  /\ log = ""
  /\ pingInterval = [c \in Conns |-> FALSE]

\* an inbound event is accepted
Accept == nops < MaxOps /\ nops' = nops + 1
\* a 'message' event on connection c
Receives(c) == readyState[c] \in {"OPEN", "CLOSING"} /\ Accept

\* wss.on('connection'): the next socket is accepted, OPEN
Connection(c) ==
  /\ readyState[c] = "NONE"
  /\ \A d \in Conns : d < c => readyState[d] # "NONE"
  /\ readyState' = [readyState EXCEPT ![c] = "OPEN"]
  /\ out' = <<>>
  /\ res' = NoRes
  /\ UNCHANGED <<lampadaires, espClients, androidClients, tasks, installed, nops>>
  /\ log' = ""
  /\ pingInterval' = [pingInterval EXCEPT ![c] = TRUE]


\* ---- ws.on('message'): the router -------------------------------------------
\* the welcome reply to an observer: { type: 'welcome', message: 'Android connecte' }
WelcomeAndroidAsError == Msg("error", "", "", "", "")
WelcomeAndroid == Msg("welcome", "", "", "", "")

\* case 'register', clientType 'android'
RegisterAndroid(c) ==
  /\ Receives(c)
  /\ Len(androidClients) < MaxAndroid
  /\ androidClients' = Append(androidClients, c)
  /\ out' = <<Send(c, WelcomeAndroid)>>
  /\ res' = NoRes
  /\ UNCHANGED <<lampadaires, espClients, readyState, tasks, installed, pingInterval>>
  /\ log' = ""

\* case 'register', clientType 'esp32' with a mac: suspended on the SELECT
RegisterEsp(c, mac) ==
  /\ Receives(c)
  /\ CanSuspend
  /\ tasks' = Suspend([pc |-> "reg_select", ws |-> c, mac |-> mac])
  /\ out' = <<>>
  /\ res' = NoRes
  /\ UNCHANGED <<lampadaires, espClients, androidClients, readyState, installed, pingInterval>>
  /\ log' = ""

\* result.rows.length > 0 for SELECT ... WHERE mac = $1
rowsFoundAlways(mac) == TRUE
rowsFound(mac) == HasRow(lampadaires, mac)

\* handleRegister resumed after the SELECT
RegisterSelectDone(s, ok) ==
  LET t == tasks[s]
      row == lampadaires[t.mac]
  IN
  /\ t.pc = "reg_select"
  /\ IF ~ok
     THEN \* catch: logged
          /\ tasks' = Finish(s)
          /\ out' = <<>>
          /\ UNCHANGED <<espClients, readyState>>
     ELSE IF rowsFound(t.mac)
     THEN \* result.rows.length > 0: espClients.set, then the UPDATE is awaited
          /\ espClients' = MapSet(espClients, t.mac, t.ws, row.id, row.token)
          /\ tasks' = [tasks EXCEPT ![s] =
                         [pc |-> "reg_update", ws |-> t.ws, mac |-> t.mac,
                          lamp |-> [id |-> row.id, token |-> row.token],
                          fresh |-> installed[t.mac] # NoRow]]
          /\ out' = <<>>
          /\ UNCHANGED readyState
     ELSE \* error reply, ws.close()
          /\ out' = <<Send(t.ws, Msg("error", "", "", "", ""))>>
          /\ readyState' = [readyState EXCEPT ![t.ws] =
                              IF @ = "OPEN" THEN "CLOSING" ELSE @]
          /\ tasks' = Finish(s)
          /\ UNCHANGED espClients
  /\ res' = NoRes
  /\ UNCHANGED <<lampadaires, androidClients, installed, nops, pingInterval>>
  /\ log' = IF ok THEN "" ELSE "Erreur register"

\* the welcome reply to a device: lampId, token, status CONNECTED
WelcomeEspNoToken(lamp) == Msg("welcome", lamp.id, "", "CONNECTED", "")
WelcomeEsp(lamp) == Msg("welcome", lamp.id, "", "CONNECTED", lamp.token)

\* handleRegister resumed after the UPDATE to CONNECTED
RegisterUpdateDone(s, ok) ==
  LET t == tasks[s] IN
  /\ t.pc = "reg_update"
  /\ IF ok
     THEN /\ lampadaires' = UpdateByMac(lampadaires, t.mac, "CONNECTED")
          /\ out' = <<Send(t.ws, WelcomeEsp(t.lamp))>>
                    \o broadcastToAndroid(Msg("lamp_connected", t.lamp.id, t.mac, "CONNECTED", ""))
     ELSE /\ out' = <<>>
          /\ UNCHANGED lampadaires
  /\ tasks' = Finish(s)
  /\ res' = NoRes
  /\ UNCHANGED <<espClients, androidClients, readyState, installed, nops, pingInterval>>
  /\ log' = IF ok THEN "" ELSE "Erreur register"

\* case 'esp_data': handleEspData suspended on the UPDATE
EspData(c, state, id) ==
  /\ Receives(c)
  /\ CanSuspend
  /\ tasks' = Suspend([pc |-> "esp_update", ws |-> c, state |-> state, id |-> id])
  /\ out' = <<>>
  /\ res' = NoRes
  /\ UNCHANGED <<lampadaires, espClients, androidClients, readyState, installed, pingInterval>>
  /\ log' = ""

\* handleEspData resumed after the UPDATE
EspDataDone(s, ok) ==
  LET t == tasks[s] IN
  /\ t.pc = "esp_update"
  /\ IF ok
     THEN /\ lampadaires' = UpdateById(lampadaires, t.id, t.state)
          /\ out' = broadcastToAndroid(Msg("esp_data", t.id, "", t.state, ""))
     ELSE /\ out' = <<>>
          /\ UNCHANGED lampadaires
  /\ tasks' = Finish(s)
  /\ res' = NoRes
  /\ UNCHANGED <<espClients, androidClients, readyState, installed, nops, pingInterval>>
  /\ log' = IF ok THEN "" ELSE "Erreur esp_data"

\* the entries a directed command for target is sent to: the first match
DirectedHitsAnyState(target) ==
  LET hits == {i \in 1..Len(espClients) : espClients[i].lampId = String(target)}
  IN IF hits = {} THEN {} ELSE {Min(hits)}
DirectedHits(target) ==
  LET hits == {i \in 1..Len(espClients) :
                 /\ espClients[i].lampId = String(target)
                 /\ readyState[espClients[i].ws] = "OPEN"}
  IN IF hits = {} THEN {} ELSE {Min(hits)}
\* the entries an undirected command is sent to
UndirectedHitsAnyState == 1..Len(espClients)
UndirectedHits ==
  {i \in 1..Len(espClients) : readyState[espClients[i].ws] = "OPEN"}
\* the sends of handleCommand to the device sockets, in Map order
Deliveries(hits, m) ==
  LET all == [i \in 1..Len(espClients) |->
                [to |-> espClients[i].ws, msg |-> m, hit |-> i \in hits]]
      kept == SelectSeq(all, LAMBDA d : d.hit)
  IN [i \in 1..Len(kept) |-> Send(kept[i].to, kept[i].msg)]

\* case 'command'
handleCommand(c, target) ==
  LET directed == Truthy(target) /\ NotSentinel(target)
      hits == IF directed THEN DirectedHits(target) ELSE UndirectedHits
  IN
  /\ Receives(c)
  /\ out' = Deliveries(hits, Msg("command", Json(target), "", "", ""))
            \o broadcastToAndroid(Msg("command_sent", Json(target), "", "", ""))
  /\ res' = NoRes
  /\ UNCHANGED <<lampadaires, espClients, androidClients, readyState, tasks, installed, pingInterval>>
  /\ log' = IF ~directed THEN "Commande envoyee a N lampadaires"
            ELSE IF hits = {} THEN "Lampadaire non connecte"
            ELSE "Commande envoyee a LAMP"

\* case 'interval_confirm'
IntervalConfirm(c) ==
  /\ Receives(c)
  /\ out' = broadcastToAndroid(Msg("interval_confirm", "", "", "", ""))
  /\ res' = NoRes
  /\ UNCHANGED <<lampadaires, espClients, androidClients, readyState, tasks, installed, pingInterval>>
  /\ log' = ""

\* the console line of a message that reaches no handler: JSON.parse throws
\* (catch), the type is unknown (default), or a register has no usable
\* clientType (handleRegister falls through both branches, nothing logged)
IgnoredLines == {"Erreur WebSocket", "Type inconnu", ""}

IgnoredButClosed(c, line) ==
  /\ Receives(c)
  /\ out' = <<>>
  /\ log' = line
  /\ res' = NoRes
  /\ readyState' = [readyState EXCEPT ![c] = "CLOSING"]
  /\ UNCHANGED <<lampadaires, espClients, androidClients, tasks, installed, pingInterval>>
Ignored(c, line) ==
  /\ Receives(c)
  /\ out' = <<>>
  /\ log' = line
  /\ res' = NoRes
  /\ UNCHANGED <<lampadaires, espClients, androidClients, readyState, tasks, installed, pingInterval>>

\* ---- ws.on('close') ---------------------------------------------------------
\* androidClients.filter(c => c !== ws)
Without(list, c) == SelectSeq(list, LAMBDA x : x # c)

\* the transport closes connection c: readyState is CLOSED when 'close' is emitted
Close(c) ==
  /\ readyState[c] \in {"OPEN", "CLOSING"}
  /\ Accept
  /\ readyState' = [readyState EXCEPT ![c] = "CLOSED"]
  /\ out' = <<>>
  /\ res' = NoRes
  /\ IF Owned(espClients, c) # {}
     THEN \* the first entry with client.ws === ws: suspended on the UPDATE
          LET e == espClients[Min(Owned(espClients, c))] IN
          /\ CanSuspend
          /\ tasks' = Suspend([pc |-> "close_update", ws |-> c, mac |-> e.mac,
                               lampId |-> e.lampId])
          /\ UNCHANGED androidClients
     ELSE /\ androidClients' = Without(androidClients, c)
          /\ UNCHANGED tasks
  /\ UNCHANGED <<lampadaires, espClients, installed, pingInterval>>
  /\ log' = IF Owned(espClients, c) # {} THEN "ESP32 deconnecte" ELSE ""

\* the close handler resumed after the UPDATE to HORS_LIGNE
CloseDone(s, ok) ==
  LET t == tasks[s] IN
  /\ t.pc = "close_update"
  /\ IF ok
     THEN /\ lampadaires' = UpdateByMac(lampadaires, t.mac, "HORS_LIGNE")
          /\ out' = broadcastToAndroid(Msg("lamp_disconnected", t.lampId, t.mac, "HORS_LIGNE", ""))
     ELSE /\ out' = <<>>
          /\ UNCHANGED lampadaires
  /\ espClients' = MapDelete(espClients, t.mac)
  /\ androidClients' = Without(androidClients, t.ws)
  /\ tasks' = Finish(s)
  /\ res' = NoRes
  /\ UNCHANGED <<readyState, installed, nops, pingInterval>>
  /\ log' = IF ok THEN "" ELSE "Erreur update deconnexion"


\* ---- the ping timer of a connection ----------------------------------------------
\* ws.readyState === WebSocket.OPEN at the tick
PingOpenAlways(c) == TRUE
PingOpen(c) == readyState[c] = "OPEN"

\* one tick of setInterval(..., 30000) for connection c
PingTick(c) ==
  /\ pingInterval[c]
  /\ Accept
  /\ IF PingOpen(c)
     THEN /\ out' = <<Send(c, Msg("ping", "", "", "", ""))>>
          /\ UNCHANGED pingInterval
     ELSE \* clearInterval(pingInterval)
          /\ out' = <<>>
          /\ pingInterval' = [pingInterval EXCEPT ![c] = FALSE]
  /\ log' = ""
  /\ res' = NoRes
  /\ UNCHANGED <<lampadaires, espClients, androidClients, readyState, tasks, installed>>

\* ---- HTTP read paths ---------------------------------------------------------
\* isConnected: Array.from(espClients.keys()).includes(lamp.mac)
isConnected(mac) == mac \in Keys(espClients)

\* the status GET /api/lampadaires returns for the row of mac
ListStatusDurable(mac) == lampadaires[mac].status
ListStatus(mac) ==
  LET status == lampadaires[mac].status IN
  IF isConnected(mac) /\ status = "OFF" THEN "CONNECTED"
  ELSE IF ~isConnected(mac) THEN "HORS_LIGNE"
  ELSE status

\* the status GET /api/lampadaire/:id returns for the row of mac
GetStatus(mac) ==
  LET status == lampadaires[mac].status IN
  IF isConnected(mac) /\ status = "OFF" THEN "CONNECTED"
  ELSE IF ~isConnected(mac) THEN "HORS_LIGNE"
  ELSE status

\* GET /api/lampadaires
List(ok) ==
  /\ Accept
  /\ res' = IF ok
             THEN [op |-> "list", code |-> 200,
                   rows |-> [m \in RowMacs(lampadaires) |-> ListStatus(m)]]
             ELSE [op |-> "list", code |-> 500]
  /\ out' = <<>>
  /\ UNCHANGED <<lampadaires, espClients, androidClients, readyState, tasks, installed, pingInterval>>
  /\ log' = ""

\* GET /api/lampadaire/:id
Get(id, ok) ==
  /\ Accept
  /\ res' = IF ~ok THEN [op |-> "get", id |-> id, code |-> 500]
             ELSE IF MacsOfId(lampadaires, id) = {}
             THEN [op |-> "get", id |-> id, code |-> 404]
             ELSE LET mac == CHOOSE m \in MacsOfId(lampadaires, id) : TRUE
                  IN [op |-> "get", id |-> id, code |-> 200, mac |-> mac,
                      status |-> GetStatus(mac)]
  /\ out' = <<>>
  /\ UNCHANGED <<lampadaires, espClients, androidClients, readyState, tasks, installed, pingInterval>>
  /\ log' = ""

\* ---- POST /api/lampadaire/install --------------------------------------------
\* mac, latitude or longitude missing: 400; else suspended on the SELECT
Install(mac) ==
  /\ Accept
  /\ out' = <<>>
  /\ IF mac = ""
     THEN /\ res' = [op |-> "install", mac |-> mac, code |-> 400]
          /\ UNCHANGED tasks
     ELSE /\ CanSuspend
          /\ tasks' = Suspend([pc |-> "inst_select", mac |-> mac])
          /\ res' = NoRes
  /\ UNCHANGED <<lampadaires, espClients, androidClients, readyState, installed, pingInterval>>
  /\ log' = ""

\* resumed after the SELECT: 409, or generateLampId, generateToken and the INSERT
InstallSelectDone(s, ok, lampId, token) ==
  LET t == tasks[s] IN
  /\ t.pc = "inst_select"
  /\ out' = <<>>
  /\ IF ~ok
     THEN /\ tasks' = Finish(s)
          /\ res' = [op |-> "install", mac |-> t.mac, code |-> 500]
     ELSE IF HasRow(lampadaires, t.mac)
     THEN /\ tasks' = Finish(s)
          /\ res' = [op |-> "install", mac |-> t.mac, code |-> 409]
     ELSE /\ tasks' = [tasks EXCEPT ![s] = [pc |-> "inst_insert", mac |-> t.mac,
                                            lampId |-> lampId, token |-> token]]
          /\ res' = NoRes
  /\ UNCHANGED <<lampadaires, espClients, androidClients, readyState, installed, nops, pingInterval>>
  /\ log' = ""

\* resumed after the INSERT, which the UNIQUE mac and PRIMARY KEY id may reject
InstallInsertDone(s, ok) ==
  LET t == tasks[s]
      accepted == /\ ok
                  /\ ~HasRow(lampadaires, t.mac)
                  /\ MacsOfId(lampadaires, t.lampId) = {}
  IN
  /\ t.pc = "inst_insert"
  /\ IF accepted
     THEN /\ lampadaires' = [lampadaires EXCEPT ![t.mac] =
                               [id |-> t.lampId, token |-> t.token, status |-> "OFF"]]
          /\ out' = broadcastToAndroid(Msg("lamp_added", t.lampId, t.mac, "OFF", ""))
          /\ installed' = [installed EXCEPT ![t.mac] =
                             [id |-> t.lampId, token |-> t.token, status |-> ""]]
          /\ res' = [op |-> "install", mac |-> t.mac, code |-> 200,
                      id |-> t.lampId, token |-> t.token]
     ELSE /\ out' = <<>>
          /\ res' = [op |-> "install", mac |-> t.mac, code |-> 500]
          /\ UNCHANGED <<lampadaires, installed>>
  /\ tasks' = Finish(s)
  /\ UNCHANGED <<espClients, androidClients, readyState, nops, pingInterval>>
  /\ log' = ""

\* ---- PUT /api/lampadaire/:id ---------------------------------------------------
\* status: the new status or "undefined"; other: some other field is given
Put(id, status, other, ok) ==
  /\ Accept
  /\ IF status = "undefined" /\ ~other
     THEN /\ res' = [op |-> "put", id |-> id, code |-> 400]
          /\ out' = <<>>
          /\ UNCHANGED lampadaires
     ELSE IF ~ok
     THEN /\ res' = [op |-> "put", id |-> id, code |-> 500]
          /\ out' = <<>>
          /\ UNCHANGED lampadaires
     ELSE IF MacsOfId(lampadaires, id) = {}
     THEN /\ res' = [op |-> "put", id |-> id, code |-> 404]
          /\ out' = <<>>
          /\ UNCHANGED lampadaires
     ELSE LET mac == CHOOSE m \in MacsOfId(lampadaires, id) : TRUE
              new == IF status = "undefined" THEN lampadaires[mac].status ELSE status
          IN /\ lampadaires' = UpdateById(lampadaires, id, new)
             /\ out' = broadcastToAndroid(Msg("lamp_updated", id, mac, new, ""))
             /\ res' = [op |-> "put", id |-> id, code |-> 200]
  /\ UNCHANGED <<espClients, androidClients, readyState, tasks, installed, pingInterval>>
  /\ log' = ""

\* ---- DELETE /api/lampadaire/:id ------------------------------------------------
Delete(id, ok) ==
  /\ Accept
  /\ IF ~ok
     THEN /\ res' = [op |-> "delete", id |-> id, code |-> 500]
          /\ out' = <<>>
          /\ UNCHANGED <<lampadaires, installed, tasks>>
     ELSE IF MacsOfId(lampadaires, id) = {}
     THEN /\ res' = [op |-> "delete", id |-> id, code |-> 404]
          /\ out' = <<>>
          /\ UNCHANGED <<lampadaires, installed, tasks>>
     ELSE LET mac == CHOOSE m \in MacsOfId(lampadaires, id) : TRUE IN
          /\ lampadaires' = [lampadaires EXCEPT ![mac] = NoRow]
          /\ installed' = [installed EXCEPT ![mac] = NoRow]
          /\ tasks' = [s \in Slots |->
                         IF tasks[s].pc = "reg_update" /\ tasks[s].mac = mac
                         THEN [tasks[s] EXCEPT !.fresh = FALSE] ELSE tasks[s]]
          /\ out' = broadcastToAndroid(Msg("lamp_deleted", id, "", "", ""))
          /\ res' = [op |-> "delete", id |-> id, code |-> 200]
  /\ UNCHANGED <<espClients, androidClients, readyState, pingInterval>>
  /\ log' = ""

\* ---- the server ------------------------------------------------------------------
Next ==
  \/ \E c \in Conns : Connection(c)
  \/ \E c \in Conns : RegisterAndroid(c)
  \/ \E c \in Conns, mac \in Macs : RegisterEsp(c, mac)
  \/ \E s \in Slots, ok \in BOOLEAN : RegisterSelectDone(s, ok)
  \/ \E s \in Slots, ok \in BOOLEAN : RegisterUpdateDone(s, ok)
  \/ \E c \in Conns, state \in EspStates, id \in AllIds : EspData(c, state, id)
  \/ \E s \in Slots, ok \in BOOLEAN : EspDataDone(s, ok)
  \/ \E c \in Conns, target \in Targets : handleCommand(c, target)
  \/ \E c \in Conns : IntervalConfirm(c)
  \/ \E c \in Conns, line \in IgnoredLines : Ignored(c, line)
  \/ \E c \in Conns : Close(c)
  \/ \E s \in Slots, ok \in BOOLEAN : CloseDone(s, ok)
  \/ \E c \in Conns : PingTick(c)
  \/ \E ok \in BOOLEAN : List(ok)
  \/ \E id \in AllIds, ok \in BOOLEAN : Get(id, ok)
  \/ \E mac \in Macs \cup {""} : Install(mac)
  \/ \E s \in Slots, ok \in BOOLEAN, lampId \in Ids, token \in Tokens :
       InstallSelectDone(s, ok, lampId, token)
  \/ \E s \in Slots, ok \in BOOLEAN : InstallInsertDone(s, ok)
  \/ \E id \in AllIds, status \in PutStatuses \cup {"undefined"}, other \in BOOLEAN, ok \in BOOLEAN :
       Put(id, status, other, ok)
  \/ \E id \in AllIds, ok \in BOOLEAN : Delete(id, ok)

Spec == Init /\ [][Next]_vars

\* the server when no store operation fails: every pool.query resolves
NextOk ==
  \/ \E c \in Conns : Connection(c)
  \/ \E c \in Conns : RegisterAndroid(c)
  \/ \E c \in Conns, mac \in Macs : RegisterEsp(c, mac)
  \/ \E s \in Slots : RegisterSelectDone(s, TRUE)
  \/ \E s \in Slots : RegisterUpdateDone(s, TRUE)
  \/ \E c \in Conns, state \in EspStates, id \in AllIds : EspData(c, state, id)
  \/ \E s \in Slots : EspDataDone(s, TRUE)
  \/ \E c \in Conns, target \in Targets : handleCommand(c, target)
  \/ \E c \in Conns : IntervalConfirm(c)
  \/ \E c \in Conns, line \in IgnoredLines : Ignored(c, line)
  \/ \E c \in Conns : Close(c)
  \/ \E s \in Slots : CloseDone(s, TRUE)
  \/ \E c \in Conns : PingTick(c)
  \/ List(TRUE)
  \/ \E id \in AllIds : Get(id, TRUE)
  \/ \E mac \in Macs \cup {""} : Install(mac)
  \/ \E s \in Slots, lampId \in Ids, token \in Tokens :
       InstallSelectDone(s, TRUE, lampId, token)
  \/ \E s \in Slots : InstallInsertDone(s, TRUE)
  \/ \E id \in AllIds, status \in PutStatuses \cup {"undefined"}, other \in BOOLEAN :
       Put(id, status, other, TRUE)
  \/ \E id \in AllIds : Delete(id, TRUE)

SpecOk == Init /\ [][NextOk]_vars


\* ---- properties ---------------------------------------------------------------------
\* the entry of mac is inserted or rewritten by this step
Inserted(mac) ==
  /\ mac \in Keys(espClients')
  /\ mac \in Keys(espClients) => MapGet(espClients', mac) # MapGet(espClients, mac)
ErrorReply(c) == Send(c, Msg("error", "", "", "", ""))

\* C1 (as stated): every device registration handshake for an address without a row
\* sends the error reply and closes the connection, whether or not the lookup
\* itself completes, and no entry is inserted for an address without a row.
C1_AsStated ==
  [][\A s \in Slots, ok \in BOOLEAN :
       (RegisterSelectDone(s, ok) /\ ~HasRow(lampadaires, tasks[s].mac))
       => /\ out' = <<ErrorReply(tasks[s].ws)>>
          /\ readyState'[tasks[s].ws] # "OPEN"
          /\ espClients' = espClients]_vars

\* C1 (amended): a device registration handshake for an address A without a row,
\* whose lookup completes, sends exactly the error reply to the connection, leaves
\* the connection not OPEN and the registry unchanged; when the lookup fails
\* nothing is sent, the connection is not closed and the registry is unchanged.
\* In every step that inserts or rewrites the entry of an address, that address
\* has a row in the table at that step.
C1_UnknownDeviceRejected ==
  [][/\ \A s \in Slots :
          (RegisterSelectDone(s, TRUE) /\ ~HasRow(lampadaires, tasks[s].mac))
          => /\ out' = <<ErrorReply(tasks[s].ws)>>
             /\ readyState'[tasks[s].ws] # "OPEN"
             /\ espClients' = espClients
     /\ \A s \in Slots :
          RegisterSelectDone(s, FALSE)
          => /\ out' = <<>>
             /\ readyState' = readyState
             /\ espClients' = espClients
     /\ \A mac \in Macs : Inserted(mac) => HasRow(lampadaires, mac)]_vars

\* C1 witness: the error reply was just sent to a connection that is now closing
\* and holds no entry, for an address that has no row.
C1_Witness ==
  \E c \in Conns :
    /\ out = <<ErrorReply(c)>>
    /\ readyState[c] = "CLOSING"
    /\ Owned(espClients, c) = {}
    /\ \E mac \in Macs : ~HasRow(lampadaires, mac) /\ mac \notin Keys(espClients)


\* the number of calls ws.send(m) on connection c in a list of sends
Count(sends, c, m) == Cardinality({i \in DOMAIN sends : sends[i] = Send(c, m)})
\* the number of times connection c is in androidClients
Times(list, c) == Cardinality({i \in DOMAIN list : list[i] = c})
Disconnected(lampId, mac) == Msg("lamp_disconnected", lampId, mac, "HORS_LIGNE", "")
\* the row of mac, and only it, is set to status
OnlyStatusWritten(mac, status) ==
  lampadaires' = [m \in Macs |-> IF m = mac /\ HasRow(lampadaires, m)
                                 THEN [lampadaires[m] EXCEPT !.status = status]
                                 ELSE lampadaires[m]]

\* C2 (as stated): whenever the disconnect handler of a connection that owns an entry
\* completes, the entry is removed, the row of its address has status HORS_LIGNE and
\* every open observer connection is sent exactly one lamp_disconnected, every
\* closed one none.
C2_AsStated ==
  [][\A s \in Slots, ok \in BOOLEAN :
       CloseDone(s, ok)
       => /\ tasks[s].mac \notin Keys(espClients')
          /\ OnlyStatusWritten(tasks[s].mac, "HORS_LIGNE")
          /\ \A o \in Conns :
               Count(out', o, Disconnected(tasks[s].lampId, tasks[s].mac))
                 = IF Times(androidClients, o) > 0 /\ readyState[o] = "OPEN"
                   THEN 1 ELSE 0]_vars

\* C2 (amended): the close of a connection that holds registry entries starts one
\* disconnect handler, for the first entry it holds, which issues one store write
\* of HORS_LIGNE for that address.  When that write completes, the entry keyed by
\* the address is removed, the row has status HORS_LIGNE, and lamp_disconnected
\* (identity, address, HORS_LIGNE) is sent once per occurrence in androidClients to
\* each observer connection that is OPEN when the write completes, and not to any
\* connection that is not OPEN.  When the write fails the entry is removed all the
\* same, the table is unchanged and nothing is sent.
C2_DisconnectEffects ==
  [][/\ \A c \in Conns :
          (Close(c) /\ Owned(espClients, c) # {})
          => /\ Len(tasks') = Len(tasks) + 1
             /\ LET e == espClients[Min(Owned(espClients, c))]
                IN tasks'[Len(tasks')] =
                     [pc |-> "close_update", ws |-> c, mac |-> e.mac, lampId |-> e.lampId]
             /\ out' = <<>>
     /\ \A s \in Slots, ok \in BOOLEAN :
          CloseDone(s, ok)
          => /\ tasks[s].mac \notin Keys(espClients')
             /\ Len(tasks') = Len(tasks) - 1
             /\ IF ok THEN OnlyStatusWritten(tasks[s].mac, "HORS_LIGNE")
                      ELSE lampadaires' = lampadaires
             /\ Len(out') = IF ok
                            THEN Cardinality({i \in DOMAIN androidClients :
                                                readyState[androidClients[i]] = "OPEN"})
                            ELSE 0
             /\ \A o \in Conns :
                  Count(out', o, Disconnected(tasks[s].lampId, tasks[s].mac))
                    = IF ok /\ readyState[o] = "OPEN"
                      THEN Times(androidClients, o) ELSE 0]_vars

\* C2 witness: lamp_disconnected was just sent to an open observer, for an address
\* whose entry is gone and whose row is HORS_LIGNE, while another connection
\* is closed.
C2_Witness ==
  \E o \in Conns, mac \in Macs, lampId \in AllIds :
    /\ out = <<Send(o, Disconnected(lampId, mac))>>
    /\ readyState[o] = "OPEN"
    /\ mac \notin Keys(espClients)
    /\ lampadaires[mac].status = "HORS_LIGNE"
    /\ \E c \in Conns : readyState[c] = "CLOSED"


\* the handlers of connection c that are suspended
TasksOf(c) ==
  {s \in Slots : /\ tasks[s].pc \in {"reg_select", "reg_update", "esp_update", "close_update"}
                 /\ tasks[s].ws = c}

\* C3: once a connection is closed and no handler of it is suspended any more, no
\* entry of the registry holds that connection.
C3_ClosedNeverRegistered ==
  \A c \in Conns :
    (readyState[c] = "CLOSED" /\ TasksOf(c) = {}) => Owned(espClients, c) = {}

\* the ws.send calls of a list of sends that carry a message of this type
OfType(sends, type) == SelectSeq(sends, LAMBDA x : x.msg.type = type)
Directed(target) == Truthy(target) /\ NotSentinel(target)
\* the entries registered under identity id whose connection is open
OpenUnder(id) ==
  {i \in 1..Len(espClients) :
     espClients[i].lampId = id /\ readyState[espClients[i].ws] = "OPEN"}
CommandMsg(target) == Msg("command", Json(target), "", "", "")
CommandSent(target) == Msg("command_sent", Json(target), "", "", "")
\* one command_sent broadcast: one send per open member of androidClients
OneCommandSentBroadcast(target) ==
  /\ \A o \in Conns :
       Count(out', o, CommandSent(target))
         = IF readyState[o] = "OPEN" THEN Times(androidClients, o) ELSE 0
  /\ \A i \in DOMAIN out' :
       out'[i].msg.type = "command_sent" => out'[i].msg = CommandSent(target)

\* C4: a directed command for identity I (truthy, not "0") is sent, when some open
\* connection is registered under I, exactly once to such a connection (the first in
\* registry order) and to no other device connection, and when none is, to no device
\* connection; in both cases one command_sent broadcast goes to the observers, and
\* nothing else is sent or changed.
C4_DirectedCommand ==
  [][\A c \in Conns, target \in Targets :
       (handleCommand(c, target) /\ Directed(target))
       => /\ OfType(out', "command") =
               IF OpenUnder(String(target)) = {} THEN <<>>
               ELSE <<Send(espClients[Min(OpenUnder(String(target)))].ws,
                           CommandMsg(target))>>
          /\ OneCommandSentBroadcast(target)
          /\ Len(out') = Len(OfType(out', "command")) + Len(OfType(out', "command_sent"))
          /\ UNCHANGED <<lampadaires, espClients, androidClients, readyState, tasks>>]_vars

\* C4 witness: a directed command was just sent to the one open connection
\* registered under its identity, and only to it, while another device connection
\* is registered under another identity and open.
C4_Witness ==
  \E i, j \in DOMAIN espClients :
    /\ espClients[i].ws # espClients[j].ws
    /\ espClients[i].lampId # espClients[j].lampId
    /\ readyState[espClients[i].ws] = "OPEN" /\ readyState[espClients[j].ws] = "OPEN"
    /\ out = <<Send(espClients[i].ws, CommandMsg(JsString(espClients[i].lampId)))>>

\* C5: an undirected command (idLampadaire undefined, "" or "0") is sent exactly once
\* to every connection that holds a registry entry and is open, and to no connection
\* that is not open.
C5_UndirectedCommand ==
  [][\A c \in Conns, target \in Targets :
       (handleCommand(c, target) /\ ~Directed(target))
       => \A d \in Conns :
            Count(out', d, CommandMsg(target))
              = IF Owned(espClients, d) # {} /\ readyState[d] = "OPEN" THEN 1 ELSE 0]_vars


\* the scan of the close handler: the address of the first entry with client.ws === c
ScanByConnection(map, c) ==
  IF Owned(map, c) = {} THEN "" ELSE map[Min(Owned(map, c))].mac

\* C6: a registration handshake for an address A that has a row, whose lookup
\* completes, leaves exactly one entry keyed by A, holding the registering
\* connection and the id and token of the row, and the scan by that connection
\* then returns A.
C6_RegisterThenLookup ==
  [][\A s \in Slots :
       (RegisterSelectDone(s, TRUE) /\ HasRow(lampadaires, tasks[s].mac))
       => LET t == tasks[s] IN
          /\ Cardinality({i \in DOMAIN espClients' : espClients'[i].mac = t.mac}) = 1
          /\ \E i \in DOMAIN espClients' :
               espClients'[i] = [mac |-> t.mac, ws |-> t.ws,
                                 lampId |-> lampadaires[t.mac].id,
                                 token |-> lampadaires[t.mac].token]
          /\ ScanByConnection(espClients', t.ws) = t.mac]_vars

\* C7: no two entries of the registry have the same address; a registration for an
\* address A that has a row, whose lookup completes, makes the entry of A hold the
\* registering connection, keeps every other entry, and neither closes any connection
\* nor sends anything.
C7_OneEntryPerAddress ==
  [][/\ \A i, j \in DOMAIN espClients' :
          espClients'[i].mac = espClients'[j].mac => i = j
     /\ \A s \in Slots :
          (RegisterSelectDone(s, TRUE) /\ HasRow(lampadaires, tasks[s].mac))
          => LET t == tasks[s] IN
             /\ \E i \in DOMAIN espClients' :
                  espClients'[i].mac = t.mac /\ espClients'[i].ws = t.ws
             /\ Keys(espClients') = Keys(espClients) \cup {t.mac}
             /\ \A i \in DOMAIN espClients :
                  espClients[i].mac # t.mac
                  => \E j \in DOMAIN espClients' : espClients'[j] = espClients[i]
             /\ readyState' = readyState
             /\ out' = <<>>]_vars

\* C7 witness: two connections have registered the same address; the entry holds
\* the second one and the first is still open.
C7_Witness ==
  \E i \in DOMAIN espClients, c \in Conns, s1, s2 \in Slots :
    /\ espClients[i].ws # c
    /\ readyState[c] = "OPEN"
    /\ tasks[s1] = [pc |-> "reg_update", ws |-> c, mac |-> espClients[i].mac,
                    lamp |-> [id |-> espClients[i].lampId, token |-> espClients[i].token],
                    fresh |-> FALSE]
    /\ tasks[s2].pc = "reg_update"
    /\ tasks[s2].ws = espClients[i].ws
    /\ tasks[s2].mac = espClients[i].mac

\* the message handlers of connection c that are suspended
MessageTasksOf(c) ==
  {s \in Slots : /\ tasks[s].pc \in {"reg_select", "reg_update", "esp_update"}
                 /\ tasks[s].ws = c}

\* C8: the effects of the messages of one connection happen in arrival order: a
\* handler of connection c has an effect only when no handler of an earlier message
\* of c is still suspended on a store operation.
C8_ArrivalOrder ==
  [][/\ \A c \in Conns :
          (\/ RegisterAndroid(c)
           \/ IntervalConfirm(c)
           \/ \E target \in Targets : handleCommand(c, target))
          => MessageTasksOf(c) = {}
     /\ \A s \in Slots, ok \in BOOLEAN :
          (\/ RegisterSelectDone(s, ok)
           \/ RegisterUpdateDone(s, ok)
           \/ EspDataDone(s, ok))
          => \A r \in MessageTasksOf(tasks[s].ws) : r >= s]_vars


\* the effective status of the row of mac: durable status and registry presence
Effective(mac) ==
  LET durable == lampadaires[mac].status
      live == \E i \in DOMAIN espClients : espClients[i].mac = mac
  IN CASE live /\ durable = "OFF" -> "CONNECTED"
       [] live /\ durable # "OFF" -> durable
       [] ~live -> "HORS_LIGNE"

\* C9: the list and the get-by-identity read paths both return, for a row with durable
\* status s and address A, CONNECTED when s is OFF and the registry has an entry for
\* A, s when s is not OFF and the registry has an entry for A, HORS_LIGNE when it has
\* none; no read changes the table or the registry.
C9_EffectiveStatus ==
  [][/\ List(TRUE)
          => /\ res'.code = 200
             /\ res'.rows = [m \in RowMacs(lampadaires) |-> Effective(m)]
     /\ \A id \in AllIds :
          (Get(id, TRUE) /\ MacsOfId(lampadaires, id) # {})
          => /\ res'.code = 200
             /\ \A m \in MacsOfId(lampadaires, id) : res'.status = Effective(m)
     /\ (\E ok \in BOOLEAN : List(ok) \/ \E id \in AllIds : Get(id, ok))
          => UNCHANGED <<lampadaires, espClients>>]_vars

\* C9 witness: a list was just returned in which a row that is durably OFF and has a
\* registry entry reads CONNECTED and a row that is durably OFF without an entry
\* reads HORS_LIGNE.
C9_Witness ==
  /\ res.op = "list" /\ res.code = 200
  /\ \E m, n \in DOMAIN res.rows :
       /\ lampadaires[m].status = "OFF" /\ m \in Keys(espClients)
       /\ res.rows[m] = "CONNECTED"
       /\ lampadaires[n].status = "OFF" /\ n \notin Keys(espClients)
       /\ res.rows[n] = "HORS_LIGNE"

\* C10: while the row installed for address M (200 reply with identity ID and token T)
\* has not been deleted, the row keeps ID and T, a registration handshake for M whose
\* lookup completes leaves the entry of M holding ID and T, and the welcome reply it
\* sends after its status write carries ID and T.
C10_RoundTrip ==
  [][/\ \A m \in Macs :
          installed'[m] # NoRow
          => /\ lampadaires'[m].id = installed'[m].id
             /\ lampadaires'[m].token = installed'[m].token
     /\ \A s \in Slots :
          (RegisterSelectDone(s, TRUE) /\ installed[tasks[s].mac] # NoRow)
          => \E i \in DOMAIN espClients' :
               espClients'[i] = [mac |-> tasks[s].mac, ws |-> tasks[s].ws,
                                 lampId |-> installed[tasks[s].mac].id,
                                 token |-> installed[tasks[s].mac].token]
     /\ \A s \in Slots :
          (RegisterUpdateDone(s, TRUE) /\ tasks[s].fresh)
          => /\ Len(out') >= 1
             /\ out'[1] = Send(tasks[s].ws,
                               Msg("welcome", installed[tasks[s].mac].id, "", "CONNECTED",
                                   installed[tasks[s].mac].token))]_vars

\* C10 witness: the welcome just sent to a registered connection carries the identity
\* and token of the install reply for its address.
C10_Witness ==
  \E i \in DOMAIN espClients :
    LET e == espClients[i] IN
    /\ installed[e.mac] # NoRow
    /\ e.lampId = installed[e.mac].id /\ e.token = installed[e.mac].token
    /\ Len(out) >= 1
    /\ out[1] = Send(e.ws, Msg("welcome", installed[e.mac].id, "", "CONNECTED",
                               installed[e.mac].token))


ObserverWelcome(c) == Send(c, Msg("welcome", "", "", "", ""))

\* C11: an observer registration is accepted whatever the table, the registry and
\* the observer list hold: it appends the connection to androidClients, sends it the
\* observer welcome and nothing else, suspends on no store operation, and changes
\* neither the registry nor the table nor the state of any connection.
C11_ObserverAccepted ==
  [][\A c \in Conns :
       RegisterAndroid(c)
       => /\ androidClients' = Append(androidClients, c)
          /\ out' = <<ObserverWelcome(c)>>
          /\ UNCHANGED <<espClients, lampadaires, tasks, readyState>>]_vars

\* C11 witness: the observer welcome was just sent to a connection that was appended
\* to androidClients although it already holds a registry entry.
C11_Witness ==
  \E c \in Conns :
    /\ out = <<ObserverWelcome(c)>>
    /\ androidClients # <<>> /\ androidClients[Len(androidClients)] = c
    /\ Owned(espClients, c) # {}

\* C12: a payload that JSON.parse rejects, or whose type is none of register,
\* esp_data, command and interval_confirm, changes neither the registry nor the
\* observer list nor the table, sends nothing to anyone, suspends on no store
\* operation, and leaves every connection, the sender included, in the state it
\* was in (so the connection still receives messages) with its ping timer armed.
C12_Absorbed ==
  [][\A c \in Conns, line \in {"Erreur WebSocket", "Type inconnu"} :
       Ignored(c, line)
       => /\ UNCHANGED <<espClients, androidClients, lampadaires, tasks>>
          /\ UNCHANGED <<readyState, pingInterval>>
          /\ out' = <<>>]_vars

\* C12 witness: a payload of unknown type was just absorbed while the registry and
\* the observer list are not empty and every accepted connection is still open.
C12_Witness ==
  /\ log = "Type inconnu"
  /\ out = <<>>
  /\ espClients # <<>> /\ androidClients # <<>>
  /\ \A c \in Conns : readyState[c] \in {"NONE", "OPEN"}

Ping(c) == Send(c, Msg("ping", "", "", "", ""))
\* the timer of connection c has been cancelled
TimerCancelled(c) == readyState[c] # "NONE" /\ ~pingInterval[c]

\* C13: a tick of the timer of a connection sends it one ping when the connection
\* is OPEN at the tick and nothing otherwise; a tick that finds it not OPEN cancels
\* the timer; a cancelled timer is never armed again and a ping is only ever sent
\* by a tick of an armed timer to an OPEN connection.  A tick waits for no reply:
\* it changes neither the state of a connection nor the registry nor the observer
\* list, and the only steps that change the state of a connection are its
\* acceptance, its transport close and the rejection of its device registration.
C13_Ping ==
  [][/\ \A c \in Conns :
          PingTick(c)
          => /\ out' = IF readyState[c] = "OPEN" THEN <<Ping(c)>> ELSE <<>>
             /\ pingInterval' = [pingInterval EXCEPT ![c] = (readyState[c] = "OPEN")]
             /\ UNCHANGED <<readyState, espClients, androidClients, tasks, lampadaires>>
     /\ \A c \in Conns :
          /\ TimerCancelled(c) => TimerCancelled(c)'
          /\ (\E i \in DOMAIN out' : out'[i] = Ping(c))
               => PingTick(c) /\ pingInterval[c] /\ readyState[c] = "OPEN"
          /\ readyState'[c] # readyState[c]
               => \/ Connection(c)
                  \/ Close(c)
                  \/ \E s \in Slots : RegisterSelectDone(s, TRUE) /\ tasks[s].ws = c]_vars

\* C13 witness: a ping was just sent to an open connection while the timer of a
\* closed connection has been cancelled by an earlier tick.
C13_Witness ==
  \E c, d \in Conns :
    /\ readyState[c] = "CLOSED" /\ TimerCancelled(c)
    /\ readyState[d] = "OPEN" /\ pingInterval[d]
    /\ out = <<Ping(d)>>

LampConnected(lampId, mac) == Msg("lamp_connected", lampId, mac, "CONNECTED", "")

\* C14: a device handshake whose lookup finds the row of the presented address
\* inserts the registry entry (connection, identity and token of the row), and when
\* the handshake ends, whether or not its CONNECTED store write succeeded, the
\* connection has been sent the welcome carrying that identity and token and
\* lamp_connected has gone to every open observer.
C14_Handshake ==
  [][/\ \A s \in Slots :
          (RegisterSelectDone(s, TRUE) /\ HasRow(lampadaires, tasks[s].mac))
          => \E i \in DOMAIN espClients' :
               espClients'[i] = [mac |-> tasks[s].mac, ws |-> tasks[s].ws,
                                 lampId |-> lampadaires[tasks[s].mac].id,
                                 token |-> lampadaires[tasks[s].mac].token]
     /\ \A s \in Slots, ok \in BOOLEAN :
          RegisterUpdateDone(s, ok)
          => LET t == tasks[s] IN
             /\ Count(out', t.ws, Msg("welcome", t.lamp.id, "", "CONNECTED", t.lamp.token)) = 1
             /\ \A o \in Conns :
                  Count(out', o, LampConnected(t.lamp.id, t.mac))
                    = IF readyState[o] = "OPEN" THEN Times(androidClients, o) ELSE 0]_vars

\* C15: when the HORS_LIGNE write of a disconnect handler fails, the handler ends
\* without issuing the write again (no disconnect handler of that connection stays
\* suspended and the table is unchanged), sends nothing, removes the registry entry
\* keyed by the address it found for the closing connection and keeps every other
\* entry, and removes every occurrence of the closing connection from
\* androidClients and no other member.
C15_WriteFailure ==
  [][\A s \in Slots :
       CloseDone(s, FALSE)
       => LET t == tasks[s] IN
          /\ Len(tasks') = Len(tasks) - 1
          /\ \A r \in DOMAIN tasks' :
               ~(tasks'[r].pc = "close_update" /\ tasks'[r].ws = t.ws)
          /\ lampadaires' = lampadaires
          /\ out' = <<>>
          /\ t.mac \notin Keys(espClients')
          /\ Keys(espClients') = Keys(espClients) \ {t.mac}
          /\ \A m \in Keys(espClients') : MapGet(espClients', m) = MapGet(espClients, m)
          /\ \A o \in Conns :
               Times(androidClients', o) = IF o = t.ws THEN 0 ELSE Times(androidClients, o)]_vars

\* C15 witness: the HORS_LIGNE write of a disconnect handler has just failed: the
\* row of an address still reads CONNECTED, the address has no entry, and a closed
\* connection holds no entry and is no observer.
C15_Witness ==
  /\ log = "Erreur update deconnexion"
  /\ \E mac \in Macs :
       lampadaires[mac].status = "CONNECTED" /\ mac \notin Keys(espClients)
  /\ \E c \in Conns :
       /\ readyState[c] = "CLOSED"
       /\ Owned(espClients, c) = {}
       /\ Times(androidClients, c) = 0

EspDataMsg(id, state) == Msg("esp_data", id, "", state, "")

\* C16: the step that receives an esp_data message only issues the status write
\* and sends nothing; when the write completes the rows with the given identity,
\* and only they, have the given status and the message is sent once per
\* occurrence to the open members of androidClients and to no one else; when the
\* write fails the table is unchanged and nothing is sent; an esp_data message is
\* only ever sent by a step that completes the write; registry and observer list
\* stay as they were in all three steps.
C16_EspData ==
  [][/\ \A c \in Conns, state \in EspStates, id \in AllIds :
          EspData(c, state, id)
          => /\ out' = <<>>
             /\ UNCHANGED <<lampadaires, espClients, androidClients>>
             /\ tasks' = Append(tasks, [pc |-> "esp_update", ws |-> c,
                                        state |-> state, id |-> id])
     /\ \A s \in Slots, ok \in BOOLEAN :
          EspDataDone(s, ok)
          => LET t == tasks[s] IN
             /\ UNCHANGED <<espClients, androidClients>>
             /\ Len(tasks') = Len(tasks) - 1
             /\ lampadaires' =
                  [m \in Macs |-> IF ok /\ HasRow(lampadaires, m) /\ lampadaires[m].id = t.id
                                  THEN [lampadaires[m] EXCEPT !.status = t.state]
                                  ELSE lampadaires[m]]
             /\ Len(out') = IF ok
                            THEN Cardinality({i \in DOMAIN androidClients :
                                                readyState[androidClients[i]] = "OPEN"})
                            ELSE 0
             /\ \A o \in Conns :
                  Count(out', o, EspDataMsg(t.id, t.state))
                    = IF ok /\ readyState[o] = "OPEN" THEN Times(androidClients, o) ELSE 0
     /\ OfType(out', "esp_data") # <<>> => \E s \in Slots : EspDataDone(s, TRUE)]_vars

\* C16 witness: an esp_data message was just fanned out to an open observer and the
\* row of its identity has its status.
C16_Witness ==
  \E o \in Conns, m \in Macs :
    /\ HasRow(lampadaires, m)
    /\ lampadaires[m].status = "ON"
    /\ out = <<Send(o, EspDataMsg(lampadaires[m].id, "ON"))>>
    /\ readyState[o] = "OPEN"

\* the sends of this step that carry a message of this type are one fan-out: one
\* per occurrence of every member of androidClients that is OPEN, none to any other
Fanout(type) ==
  \A o \in Conns :
    Cardinality({i \in DOMAIN out' : out'[i].to = o /\ out'[i].msg.type = type})
      = IF readyState[o] = "OPEN" THEN Times(androidClients, o) ELSE 0
BroadcastTypes ==
  {"interval_confirm", "command_sent", "esp_data", "lamp_connected",
   "lamp_disconnected", "lamp_added", "lamp_updated", "lamp_deleted"}

\* C17: every broadcast (of interval_confirm, command_sent, esp_data,
\* lamp_connected, lamp_disconnected) sends its message once per occurrence to
\* every member of androidClients that is OPEN and to no connection that is not;
\* with androidClients empty no broadcast message is sent and the step completes;
\* androidClients only changes by an observer registration, which appends, and by
\* the close handler of a connection, which removes that connection only: a
\* broadcast never changes it and a member that is not OPEN stays a member until
\* its own close handler removes it.
C17_Broadcast ==
  [][/\ (\E c \in Conns : IntervalConfirm(c)) => Fanout("interval_confirm")
     /\ (\E c \in Conns, target \in Targets : handleCommand(c, target))
          => Fanout("command_sent")
     /\ (\E s \in Slots : EspDataDone(s, TRUE)) => Fanout("esp_data")
     /\ (\E s \in Slots : RegisterUpdateDone(s, TRUE)) => Fanout("lamp_connected")
     /\ (\E s \in Slots : CloseDone(s, TRUE)) => Fanout("lamp_disconnected")
     /\ androidClients = <<>>
          => \A i \in DOMAIN out' : out'[i].msg.type \notin BroadcastTypes
     /\ androidClients' # androidClients
          => \/ \E c \in Conns :
                  RegisterAndroid(c) /\ androidClients' = Append(androidClients, c)
             \/ \E c \in Conns :
                  /\ readyState'[c] = "CLOSED"
                  /\ Close(c) \/ \E s \in Slots, ok \in BOOLEAN :
                                   CloseDone(s, ok) /\ tasks[s].ws = c
                  /\ \A o \in Conns :
                       Times(androidClients', o)
                         = IF o = c THEN 0 ELSE Times(androidClients, o)]_vars

\* C17 witness: a command was just handled whose command_sent broadcast sent
\* nothing, because the only member of androidClients is not OPEN; it is still a
\* member.
C17_Witness ==
  /\ log = "Commande envoyee a N lampadaires"
  /\ out = <<>>
  /\ Len(androidClients) = 1
  /\ readyState[androidClients[1]] = "CLOSING"

\* C18: no connection is at the same time in the registry and in the observer
\* list, and no connection holds more than one registry entry.
C18_Lifecycle ==
  \A c \in Conns :
    /\ ~(Owned(espClients, c) # {} /\ Times(androidClients, c) > 0)
    /\ Cardinality(Owned(espClients, c)) <= 1

\* C20: the disconnect handler of a connection c, when it completes, removes no
\* entry held by another connection: every entry that another connection holds when
\* the HORS_LIGNE write of c completes, such as that of a newer connection that
\* registered the same address while the handler was suspended, is still in the
\* registry afterwards.
C20_RemovesOwnEntry ==
  [][\A s \in Slots, ok \in BOOLEAN :
       CloseDone(s, ok)
       => \A i \in DOMAIN espClients :
            espClients[i].ws # tasks[s].ws
            => \E j \in DOMAIN espClients' : espClients'[j] = espClients[i]]_vars

\* C19 (as stated): a directed command whose target is a number is delivered to no
\* device connection, the stored identities being strings.
C19_AsStated ==
  [][\A c \in Conns, target \in Targets :
       (handleCommand(c, target) /\ Directed(target) /\ target.ty = "number")
       => OfType(out', "command") = <<>>]_vars

\* the open entries whose identity is the string rendering of the target
OpenRendering(target) ==
  {i \in 1..Len(espClients) :
     espClients[i].lampId = target.v /\ readyState[espClients[i].ws] = "OPEN"}

\* C19 (amended): a directed command matches an entry exactly when the string
\* rendering of its target equals the identity of the entry, whatever the type of
\* the target: the command, with its target as received, is sent to the first open
\* entry whose identity is that rendering, so the number 7 reaches the connection
\* registered under "7"; when no open entry has that identity it is sent to no
\* device connection.
C19_StringMatch ==
  [][\A c \in Conns, target \in Targets :
       (handleCommand(c, target) /\ Truthy(target) /\ NotSentinel(target))
       => OfType(out', "command") =
            IF OpenRendering(target) = {} THEN <<>>
            ELSE <<Send(espClients[Min(OpenRendering(target))].ws,
                        Msg("command", Json(target), "", "", ""))>>]_vars

\* C19 witness: a command whose target is the number 7 was just sent to the open
\* connection registered under the identity "7".
C19_Witness ==
  \E i \in DOMAIN espClients :
    /\ espClients[i].lampId = "7"
    /\ readyState[espClients[i].ws] = "OPEN"
    /\ out = <<Send(espClients[i].ws, Msg("command", "7", "", "", ""))>>
    /\ log = "Commande envoyee a LAMP"

\* C21: no connection is in androidClients more than once (so a broadcast reaches
\* an open observer connection exactly once).
C21_NoDuplicateObserver ==
  \A c \in Conns : Times(androidClients, c) <= 1

\* no handler is suspended on a store operation
Quiescent == tasks = <<>>
\* the entries of address mac
EntriesOf(mac) == {i \in DOMAIN espClients : espClients[i].mac = mac}

\* C22: when no store operation fails, in every state in which no handler is
\* suspended on a store operation, for every row: if the connection registered for
\* its address is closed the durable status is HORS_LIGNE; if the durable status is
\* CONNECTED, which only a device registration writes, the address still has an
\* entry for a connection that is not closed; and if the address has an entry for
\* an open connection the durable status is not HORS_LIGNE.
C22_StatusConsistent ==
  Quiescent
  => \A mac \in RowMacs(lampadaires) :
       /\ (\E i \in EntriesOf(mac) : readyState[espClients[i].ws] = "CLOSED")
            => lampadaires[mac].status = "HORS_LIGNE"
       /\ lampadaires[mac].status = "CONNECTED"
            => \E i \in EntriesOf(mac) : readyState[espClients[i].ws] # "CLOSED"
       /\ (\E i \in EntriesOf(mac) : readyState[espClients[i].ws] = "OPEN")
            => lampadaires[mac].status # "HORS_LIGNE"

\* C23: every registry entry, keyed by address A with identity I, has a row in
\* the table with address A and identity I (so no command is delivered for an
\* identity that has no row).
C23_EntryHasRecord ==
  \A i \in DOMAIN espClients :
    /\ HasRow(lampadaires, espClients[i].mac)
    /\ lampadaires[espClients[i].mac].id = espClients[i].lampId

====
